---- MODULE Spec2Model ----
(***************************************************************************)
(* Grid trading bot: the token-bucket RateLimiter shared by the exchange   *)
(* calls, the grid strategy that builds the ladder of limit orders, the    *)
(* configuration validators, the database session scope and the metrics    *)
(* collector.                                                              *)
(*                                                                         *)
(* The repository holds two copies of the package: grid_trading_bot/ and   *)
(* scripts/grid_trading_bot/.  Where the two copies of a class differ, the *)
(* variable impl says which copy a behaviour runs.                         *)
(***************************************************************************)
EXTENDS Integers, Sequences, FiniteSets, TLC

(***************************************************************************)
(* Bounds of the model.                                                    *)
(***************************************************************************)
\* max_requests of the limiter under check (the exchange passes 30).
MaxRequests == 2
\* time_window, in clock ticks: one tick is time_window / TimeWindow seconds.
TimeWindow == 3
\* asyncio.sleep(0.1), in clock ticks.
SleepTicks == 1
\* number of tasks that share one limiter
NumCallers == 2
\* acquire() calls made in one behaviour
MaxCalls == 4

Callers == 1..NumCallers

\* initial_tokens=None (the default of RateLimiter.__init__)
None == -1

(***************************************************************************)
(* Token arithmetic.  tokens is real-valued in the code; the model counts  *)
(* it in units of 1/TimeWindow token, so that the refill of one tick,      *)
(* max_requests / time_window per second, is the whole number MaxRequests. *)
(***************************************************************************)
OneToken == TimeWindow
Capacity == MaxRequests * OneToken

Min(a, b) == IF a <= b THEN a ELSE b
Max(a, b) == IF a >= b THEN a ELSE b

\* Beyond this many ticks every refill saturates at Capacity (tokens > -OneToken),
\* so the clock reading now - last_update is kept only up to it.
ElapsedCap == 2 * TimeWindow

VARIABLES
  impl,         \* "pkg": grid_trading_bot/...; "scripts": scripts/grid_trading_bot/...
  initial_tokens, \* the initial_tokens argument of RateLimiter.__init__
  tokens,       \* RateLimiter.tokens, in units of 1/TimeWindow token
  time_passed,  \* time.monotonic() - RateLimiter.last_update, in ticks
  lock,         \* RateLimiter.lock: the caller holding it, 0 when free
  waiters,      \* the FIFO of callers suspended in lock.acquire()
  pc,           \* where each caller's acquire() is
  sleep_left,   \* ticks left of a caller's asyncio.sleep(0.1)
  took,         \* tokens the current acquire() of a caller has decremented
  n_calls,      \* acquire() calls started
  n_returned,   \* acquire() calls that returned
  n_consumed,   \* decrements of tokens by one
  recent        \* ages (ticks) of the acquire() returns of the last time_window

rlvars == <<impl, initial_tokens, tokens, time_passed, lock, waiters, pc, sleep_left, took,
            n_calls, n_returned, n_consumed, recent>>

VARIABLES
  grid_size,      \* config.grid_size
  lower_price,    \* config.lower_price, a Decimal in units of 10^-Prec
  upper_price,    \* config.upper_price
  market,         \* the exchange's current price of the pair
  gpc,            \* where each task is: "idle", "init", "check", "sleep"
  idx,            \* i of `for i in range(grid_size)`, of each task
  in_start,       \* the task's initialization was called by start()
  stopped,        \* stop() was called since the task's start() began
  is_running,     \* GridStrategy.is_running
  active_orders,  \* GridTradingStrategy.active_orders (its keys)
  orders,         \* the orders the exchange accepted: [side, price, status]
  ladder,         \* the levels of each task's initialize(): [price, side, current_price, placed]
  cancels,        \* the order ids exchange.cancel_order was called with
  error_log,      \* the logger.error lines of _place_grid_order: [side, price]
  events,         \* fill notifications not yet handled (indices of orders)
  n_events,       \* API calls, fills, price changes and exchange errors so far
  stop_calls      \* stop() calls so far

gridvars == <<grid_size, lower_price, upper_price, market, gpc, idx, in_start,
              stopped, is_running, active_orders, orders, ladder, cancels,
              error_log, events, n_events, stop_calls>>

VARIABLES
  raw,     \* the values of the configuration file being loaded
  loaded   \* "pending", "accepted", "rejected", "constructed"; "none"

cfgvars == <<raw, loaded>>

VARIABLES
  spc,         \* where each use of get_session is: "idle", "body", "commit", "rollback", "done"
  calls,       \* the methods called on the use's session, in order
  body_exc,    \* what the body of the `with` raised: "none", "Exception", "BaseException"
  commit_exc,  \* what session.commit() raised
  propagated   \* the exception that left the `with` for the caller

dbvars == <<spc, calls, body_exc, commit_exc, propagated>>

VARIABLES
  trades,           \* MetricsCollector.trades
  current_balance,  \* MetricsCollector.current_balance
  peak_balance      \* MetricsCollector.peak_balance

mvars == <<trades, current_balance, peak_balance>>

vars == <<rlvars, gridvars, cfgvars, dbvars, mvars>>

(***************************************************************************)
(* RateLimiter                                                             *)
(***************************************************************************)
\* self.tokens = initial_tokens or max_requests
InitialTokens(k) ==
  IF k = None \/ k = 0
  THEN MaxRequests * OneToken
  ELSE k * OneToken

\* min(max_requests, tokens + time_passed * max_requests / time_window)
\* (in grid_trading_bot the expression is cut in two by a stray line of the
\* script that generated the file; scripts has it whole)
Refill(t, elapsed) == Min(Capacity, t + elapsed * MaxRequests)

RLInit ==
  /\ impl \in {"pkg", "scripts"}
  /\ initial_tokens \in IF impl = "pkg" THEN {None} \cup (0..MaxRequests)
                                        ELSE {None}
  /\ tokens = IF impl = "pkg" THEN InitialTokens(initial_tokens)
              ELSE MaxRequests * OneToken
  /\ time_passed = 0
  /\ lock = 0
  /\ waiters = <<>>
  /\ pc = [c \in Callers |-> "idle"]
  /\ sleep_left = [c \in Callers |-> 0]
  /\ took = [c \in Callers |-> 0]
  /\ n_calls = 0
  /\ n_returned = 0
  /\ n_consumed = 0
  /\ recent = <<>>

\* The locked caller decrements and leaves `async with self.lock`: acquire()
\* returns.  t: tokens after the refill, k: decrements of this call so far.
TakeToken(c, t, k) ==
  /\ tokens' = t - OneToken
  /\ took' = [took EXCEPT ![c] = k + 1]
  /\ n_consumed' = n_consumed + 1
  /\ n_returned' = n_returned + 1
  /\ recent' = Append(recent, 0)
  /\ lock' = 0
  /\ pc' = [pc EXCEPT ![c] = "returned"]
  /\ UNCHANGED sleep_left

\* await asyncio.sleep(0.1), inside `async with self.lock`
Sleep(c, t, k) ==
  /\ tokens' = t
  /\ took' = [took EXCEPT ![c] = k]
  /\ lock' = c
  /\ pc' = [pc EXCEPT ![c] = "sleeping"]
  /\ sleep_left' = [sleep_left EXCEPT ![c] = SleepTicks]
  /\ UNCHANGED <<n_consumed, n_returned, recent>>

\* grid_trading_bot: while tokens <= 0: refill; if tokens <= 0: sleep.  tokens -= 1
BodyPkg(c, k) ==
  IF tokens <= 0
  THEN /\ time_passed' = 0
       /\ IF Refill(tokens, time_passed) <= 0
          THEN Sleep(c, Refill(tokens, time_passed), k)
          ELSE TakeToken(c, Refill(tokens, time_passed), k)
  ELSE /\ UNCHANGED time_passed
       /\ TakeToken(c, tokens, k)

\* scripts: refill; if tokens < 1: sleep, and then return; else tokens -= 1
BodyScripts(c, k) ==
  /\ time_passed' = 0
  /\ IF Refill(tokens, time_passed) < OneToken
     THEN Sleep(c, Refill(tokens, time_passed), k)
     ELSE TakeToken(c, Refill(tokens, time_passed), k)

Body(c, k) == IF impl = "pkg" THEN BodyPkg(c, k) ELSE BodyScripts(c, k)

\* A task calls acquire(): `async with self.lock` takes a free lock with no
\* waiters at once and runs on to the next await; otherwise the task queues.
Acquire(c) ==
  /\ pc[c] \in {"idle", "returned", "exited", "raised", "cancelled_waiting",
               "cancelled_sleeping"}
  /\ n_calls < MaxCalls
  /\ n_calls' = n_calls + 1
  /\ IF lock = 0 /\ waiters = <<>>
     THEN /\ Body(c, 0)
          /\ UNCHANGED waiters
     ELSE /\ waiters' = Append(waiters, c)
          /\ pc' = [pc EXCEPT ![c] = "lock_wait"]
          /\ took' = [took EXCEPT ![c] = 0]
          /\ UNCHANGED <<tokens, time_passed, lock, sleep_left, n_returned,
                         n_consumed, recent>>
  /\ UNCHANGED <<impl, initial_tokens, gridvars, cfgvars, dbvars, mvars>>

\* The lock is free and c is the first waiter: lock.acquire() returns in c.
GetLock(c) ==
  /\ lock = 0
  /\ waiters # <<>>
  /\ Head(waiters) = c
  /\ waiters' = Tail(waiters)
  /\ Body(c, took[c])
  /\ UNCHANGED <<impl, initial_tokens, n_calls, gridvars, cfgvars, dbvars, mvars>>

\* asyncio.sleep(0.1) is over.  grid_trading_bot goes round its while loop;
\* scripts leaves the if and the `async with`, and acquire() returns.
Wake(c) ==
  /\ pc[c] = "sleeping"
  /\ sleep_left[c] = 0
  /\ IF impl = "pkg"
     THEN BodyPkg(c, took[c])
     ELSE /\ lock' = 0
          /\ pc' = [pc EXCEPT ![c] = "returned"]
          /\ n_returned' = n_returned + 1
          /\ recent' = Append(recent, 0)
          /\ UNCHANGED <<tokens, time_passed, sleep_left, took, n_consumed>>
  /\ UNCHANGED <<impl, initial_tokens, waiters, n_calls, gridvars, cfgvars, dbvars, mvars>>

\* A Cancel that forgets the lock: the sleep is left without the exit of
\* `async with self.lock`.
CancelKeepsLock(c) ==
  /\ pc[c] \in {"lock_wait", "sleeping"}
  /\ pc' = [pc EXCEPT ![c] = IF pc[c] = "sleeping" THEN "cancelled_sleeping"
                                                  ELSE "cancelled_waiting"]
  /\ waiters' = SelectSeq(waiters, LAMBDA w : w # c)
  /\ sleep_left' = [sleep_left EXCEPT ![c] = 0]
  /\ UNCHANGED <<impl, initial_tokens, tokens, time_passed, lock, took, n_calls, n_returned,
                 n_consumed, recent, gridvars, cfgvars, dbvars, mvars>>

\* The caller's task is cancelled at an await of acquire(): CancelledError
\* leaves lock.acquire()'s queue, or leaves the sleep through `async with`,
\* whose exit releases the lock.
Cancel(c) ==
  /\ pc[c] \in {"lock_wait", "sleeping"}
  /\ pc' = [pc EXCEPT ![c] = IF pc[c] = "sleeping" THEN "cancelled_sleeping"
                                                  ELSE "cancelled_waiting"]
  /\ IF pc[c] = "sleeping"
     THEN lock' = 0 /\ UNCHANGED waiters
     ELSE waiters' = SelectSeq(waiters, LAMBDA w : w # c) /\ UNCHANGED lock
  /\ sleep_left' = [sleep_left EXCEPT ![c] = 0]
  /\ UNCHANGED <<impl, initial_tokens, tokens, time_passed, took, n_calls, n_returned,
                 n_consumed, recent, gridvars, cfgvars, dbvars, mvars>>

\* An __aexit__ that gives the token of its __aenter__ back to the bucket.
AExitReturnsToken(c, exc) ==
  /\ impl = "pkg"
  /\ pc[c] = "returned"
  /\ pc' = [pc EXCEPT ![c] = IF exc THEN "raised" ELSE "exited"]
  /\ tokens' = Min(Capacity, tokens + OneToken)
  /\ UNCHANGED <<impl, initial_tokens, time_passed, lock, waiters, sleep_left,
                 took, n_calls, n_returned, n_consumed, recent, gridvars,
                 cfgvars, dbvars, mvars>>

\* `async with self.rate_limiter:` is left after __aenter__'s acquire(), the
\* body done or raising (exc): __aexit__ is `pass` and returns None, so an
\* exception goes on to the caller.  scripts has no __aenter__/__aexit__.
AExit(c, exc) ==
  /\ impl = "pkg"
  /\ pc[c] = "returned"
  /\ pc' = [pc EXCEPT ![c] = IF exc THEN "raised" ELSE "exited"]
  /\ UNCHANGED <<impl, initial_tokens, tokens, time_passed, lock, waiters,
                 sleep_left, took, n_calls, n_returned, n_consumed, recent,
                 gridvars, cfgvars, dbvars, mvars>>

\* ages of the returns still inside the last time_window, one tick later
RECURSIVE Age(_)
Age(s) ==
  IF s = <<>> THEN <<>>
  ELSE IF Head(s) + 1 >= TimeWindow THEN Age(Tail(s))
       ELSE <<Head(s) + 1>> \o Age(Tail(s))

\* The monotonic clock advances by one tick.
Tick ==
  /\ time_passed' = Min(time_passed + 1, ElapsedCap)
  /\ sleep_left' = [c \in Callers |-> Max(sleep_left[c] - 1, 0)]
  /\ recent' = Age(recent)
  /\ UNCHANGED <<impl, initial_tokens, tokens, lock, waiters, pc, took, n_calls, n_returned,
                 n_consumed, gridvars, cfgvars, dbvars, mvars>>

RLNext ==
  \/ \E c \in Callers : Acquire(c)
  \/ \E c \in Callers : GetLock(c)
  \/ \E c \in Callers : Wake(c)
  \/ \E c \in Callers : Cancel(c)
  \/ \E c \in Callers, exc \in BOOLEAN : AExit(c, exc)
  \/ Tick

(***************************************************************************)
(* Decimal arithmetic.  Prices are Python Decimals: every operation rounds *)
(* its exact result half-even to the context's significant digits (28 in   *)
(* Python; Prec here).  A price is held as a whole number of 10^-Prec.     *)
(***************************************************************************)
\* significant digits of the Decimal context
Prec == 4

RECURSIVE Pow10(_)
Pow10(n) == IF n = 0 THEN 1 ELSE 10 * Pow10(n - 1)

\* 1.0 in units of 10^-Prec
Unit == Pow10(Prec)

RECURSIVE Digits(_)
Digits(n) == IF n < 10 THEN 1 ELSE 1 + Digits(n \div 10)

\* num/den (both >= 0, den > 0) to the nearest whole number, ties to even
RoundHalfEven(num, den) ==
  LET q == num \div den
      r == num % den
  IN  IF 2 * r < den THEN q
      ELSE IF 2 * r > den THEN q + 1
      ELSE IF q % 2 = 0 THEN q ELSE q + 1

\* the spacing, in units, of the Decimals of Prec digits around num/den
Quantum(num, den) == Pow10(Max(0, Digits(num \div den) - Prec))

\* the Decimal nearest to num/den
DecRound(num, den) ==
  RoundHalfEven(num, den * Quantum(num, den)) * Quantum(num, den)

DecAdd(a, b) == DecRound(a + b, 1)
DecSub(a, b) == DecRound(a - b, 1)
\* Decimal * int
DecMul(a, i) == DecRound(a * i, 1)
\* Decimal / int
DecDiv(a, n) == DecRound(a, n)

(***************************************************************************)
(* Grid strategy                                                           *)
(***************************************************************************)
\* calls of the strategy's API, fills, price changes and exchange errors in
\* one behaviour
MaxEvents == 4

\* the configurations <<grid_size, lower_price, upper_price>> and the market
\* prices of the model, in whole price units
Configs == {<<5, 100, 200>>, <<4, 2, 9>>, <<2, 100, 200>>}
MarketPrices == {5, 140, 150}

\* price_step = (upper_price - lower_price) / (grid_size - 1)
PriceStep == DecDiv(DecSub(upper_price, lower_price), grid_size - 1)

\* price = lower_price + (price_step * i)
LevelPrice(i) == DecAdd(lower_price, DecMul(PriceStep, i))

\* A comparison that sends the level at the current price to the buy side.
ClassifyAtOrBelow(price, current_price) ==
  IF price <= current_price THEN "buy" ELSE "sell"

\* if price < current_price: buy, else: sell
Classify(price, current_price) ==
  IF price < current_price THEN "buy" ELSE "sell"

\* self._get_current_price(): the exchange's price of the pair at the call
GetCurrentPrice == market

\* exchange.place_limit_order(symbol, side, price, quantity): the exchange
\* accepts the order and returns its id (ok), or the call raises
PlaceLimitOrder(side, price, ok) ==
  IF ok
  THEN /\ orders' = Append(orders, [side |-> side, price |-> price, status |-> "open"])
       /\ UNCHANGED n_events
  ELSE /\ n_events < MaxEvents
       /\ n_events' = n_events + 1
       /\ UNCHANGED orders

\* An _place_grid_order without the try: the failure reaches its caller.
PropagatesUncaught(ok) == ~ok

\* except Exception as e: logger.error(...): whether the failure of a placement
\* leaves _place_grid_order as an exception
Propagates(ok) == FALSE

\* _place_grid_order: the call, then a log line; an exception is logged with
\* the side and the price and swallowed.  active_orders is not written.
PlaceGridOrder(side, price, ok) ==
  /\ PlaceLimitOrder(side, price, ok)
  /\ error_log' = IF ok THEN error_log
                  ELSE Append(error_log, [side |-> side, price |-> price])
  /\ UNCHANGED active_orders

\* the tasks that call the strategy
Tasks == DOMAIN gpc

\* the strategy constructed on a configuration, called by `tasks`
Constructed(cfg, tasks) ==
  /\ grid_size = cfg[1]
  /\ lower_price = cfg[2] * Unit
  /\ upper_price = cfg[3] * Unit
  /\ gpc = [t \in tasks |-> "idle"]
  /\ idx = [t \in tasks |-> 0]
  /\ in_start = [t \in tasks |-> FALSE]
  /\ stopped = [t \in tasks |-> FALSE]
  /\ ladder = [t \in tasks |-> <<>>]
  /\ is_running = FALSE
  /\ active_orders = {}
  /\ orders = <<>>
  /\ cancels = <<>>
  /\ error_log = <<>>
  /\ events = <<>>
  /\ n_events = 0
  /\ stop_calls = 0

\* one task drives the strategy
GridInit ==
  /\ \E cfg \in Configs : Constructed(cfg, 1..1)
  /\ market \in {m * Unit : m \in MarketPrices}

\* `await strategy.initialize()`: task t begins an initialization
Initialize(t) ==
  /\ gpc[t] = "idle"
  /\ n_events < MaxEvents
  /\ n_events' = n_events + 1
  /\ gpc' = [gpc EXCEPT ![t] = "init"]
  /\ idx' = [idx EXCEPT ![t] = 0]
  /\ ladder' = [ladder EXCEPT ![t] = <<>>]
  /\ in_start' = [in_start EXCEPT ![t] = FALSE]
  /\ stopped' = [stopped EXCEPT ![t] = FALSE]
  /\ UNCHANGED <<grid_size, lower_price, upper_price, market, is_running,
                 active_orders, orders, cancels, error_log, events, stop_calls,
                 rlvars, cfgvars, dbvars, mvars>>

\* start() called by task t: is_running = True; await self._initialize_grid()
Start(t) ==
  /\ gpc[t] = "idle"
  /\ n_events < MaxEvents
  /\ n_events' = n_events + 1
  /\ is_running' = TRUE
  /\ gpc' = [gpc EXCEPT ![t] = "init"]
  /\ idx' = [idx EXCEPT ![t] = 0]
  /\ ladder' = [ladder EXCEPT ![t] = <<>>]
  /\ in_start' = [in_start EXCEPT ![t] = TRUE]
  /\ stopped' = [stopped EXCEPT ![t] = FALSE]
  /\ UNCHANGED <<grid_size, lower_price, upper_price, market, active_orders,
                 orders, cancels, error_log, events, stop_calls, rlvars,
                 cfgvars, dbvars, mvars>>

\* One turn of initialize()'s loop: the level's price, the current price, the
\* side, the placement.  After the last level initialize() returns, to its
\* caller or into start()'s `while self.is_running`.
InitLevel(t) ==
  /\ gpc[t] = "init"
  /\ idx[t] < grid_size
  /\ \E ok \in BOOLEAN :
       LET price == LevelPrice(idx[t])
           current_price == GetCurrentPrice
           side == Classify(price, current_price)
       IN  /\ PlaceGridOrder(side, price, ok)
           /\ ladder' = [ladder EXCEPT ![t] =
                           Append(@, [price |-> price, side |-> side,
                                      current_price |-> current_price,
                                      placed |-> ok])]
           /\ gpc' = [gpc EXCEPT ![t] =
                        IF Propagates(ok) THEN "idle"
                        ELSE IF idx[t] + 1 < grid_size THEN "init"
                        ELSE IF in_start[t] /\ is_running THEN "check"
                        ELSE "idle"]
  /\ idx' = [idx EXCEPT ![t] = @ + 1]
  /\ UNCHANGED <<grid_size, lower_price, upper_price, market, in_start,
                 is_running, stopped, cancels, events, stop_calls, rlvars,
                 cfgvars, dbvars, mvars>>

\* self._check_and_update_orders(): polls the exchange; changes nothing here
CheckAndUpdateOrders == UNCHANGED <<active_orders, orders, events>>

\* `await self._check_and_update_orders()` of task t's loop completes and
\* `await asyncio.sleep(self.check_interval)` begins
Check(t) ==
  /\ gpc[t] = "check"
  /\ CheckAndUpdateOrders
  /\ gpc' = [gpc EXCEPT ![t] = "sleep"]
  /\ UNCHANGED <<grid_size, lower_price, upper_price, market, idx, in_start,
                 is_running, stopped, ladder, cancels, error_log, n_events,
                 stop_calls, rlvars, cfgvars, dbvars, mvars>>

\* start()'s loop: the interval sleep of task t ends; while self.is_running the
\* next check begins, else start() returns
RunLoop(t) ==
  /\ gpc[t] = "sleep"
  /\ gpc' = [gpc EXCEPT ![t] = IF is_running THEN "check" ELSE "idle"]
  /\ UNCHANGED <<grid_size, lower_price, upper_price, market, idx, in_start,
                 is_running, stopped, active_orders, orders, ladder, cancels,
                 error_log, events, n_events, stop_calls, rlvars, cfgvars, dbvars, mvars>>

\* the start() calls in progress
InStart == {t \in Tasks : in_start[t] /\ gpc[t] # "idle"}

\* A stop() that asks the exchange to cancel every open order, each time it
\* is called; the exchange refuses.
StopCancelsOpen ==
  /\ n_events < MaxEvents
  /\ n_events' = n_events + 1
  /\ stop_calls' = stop_calls + 1
  /\ is_running' = FALSE
  /\ stopped' = [t \in Tasks |-> stopped[t] \/ t \in InStart]
  /\ cancels' = cancels \o SelectSeq([o \in 1..Len(orders) |-> o],
                                     LAMBDA o : orders[o].status = "open")
  /\ UNCHANGED <<grid_size, lower_price, upper_price, market, gpc, idx,
                 in_start, active_orders, orders, ladder, error_log, events,
                 rlvars, cfgvars, dbvars, mvars>>

\* stop(): self.is_running = False
Stop ==
  /\ n_events < MaxEvents
  /\ n_events' = n_events + 1
  /\ stop_calls' = stop_calls + 1
  /\ is_running' = FALSE
  /\ stopped' = [t \in Tasks |-> stopped[t] \/ t \in InStart]
  /\ UNCHANGED <<grid_size, lower_price, upper_price, market, gpc, idx,
                 in_start, active_orders, orders, ladder, cancels, error_log,
                 events, rlvars, cfgvars, dbvars, mvars>>

\* The exchange fills an open order and notifies the strategy.
Fill(o) ==
  /\ o \in 1..Len(orders)
  /\ orders[o].status = "open"
  /\ n_events < MaxEvents
  /\ n_events' = n_events + 1
  /\ orders' = [orders EXCEPT ![o].status = "filled"]
  /\ events' = Append(events, o)
  /\ UNCHANGED <<grid_size, lower_price, upper_price, market, gpc, idx,
                 in_start, is_running, stopped, active_orders, ladder, cancels,
                 error_log, stop_calls, rlvars, cfgvars, dbvars, mvars>>

\* on_order_filled(order): the body is `pass`
OnOrderFilledBody(o) == UNCHANGED <<active_orders, orders>>

\* The strategy handles the oldest fill notification.
OnOrderFilled ==
  /\ events # <<>>
  /\ events' = Tail(events)
  /\ OnOrderFilledBody(Head(events))
  /\ UNCHANGED <<grid_size, lower_price, upper_price, market, gpc, idx,
                 in_start, is_running, stopped, ladder, cancels, error_log,
                 n_events, stop_calls, rlvars, cfgvars, dbvars, mvars>>

\* The market price changes.
MarketMove ==
  /\ n_events < MaxEvents
  /\ n_events' = n_events + 1
  /\ \E m \in MarketPrices : m * Unit # market /\ market' = m * Unit
  /\ UNCHANGED <<grid_size, lower_price, upper_price, gpc, idx, in_start,
                 is_running, stopped, active_orders, orders, ladder, cancels,
                 error_log, events, stop_calls, rlvars, cfgvars, dbvars, mvars>>

GridNext ==
  \/ \E t \in Tasks : Initialize(t)
  \/ \E t \in Tasks : Start(t)
  \/ \E t \in Tasks : InitLevel(t)
  \/ \E t \in Tasks : Check(t)
  \/ \E t \in Tasks : RunLoop(t)
  \/ Stop
  \/ \E o \in 1..Len(orders) : Fill(o)
  \/ OnOrderFilled
  \/ MarketMove

(***************************************************************************)
(* Configuration                                                           *)
(***************************************************************************)
\* the values a configuration file may carry; grid_spread in hundredths
RawSizes == 0..3
RawPrices == {1, 2, 3}
RawSpreads == {0, 50, 100}
Models == {"loader.GridConfig", "validation.GridConfig"}

\* @validator("grid_size"): if v < 2: raise ValueError
ValidateGridSize(v) == v >= 2

\* @validator("grid_spread"): if not 0 < v < 1: raise ValueError
ValidateGridSpread(v) == 0 < v /\ v < 100

\* the model class accepts the values: each of its validators passes
Accepts(r) ==
  IF r.model = "loader.GridConfig"
  THEN ValidateGridSize(r.grid_size) /\ ValidateGridSpread(r.grid_spread)
  ELSE ValidateGridSize(r.grid_size)

ConfigInit ==
  /\ raw \in [model : Models, grid_size : RawSizes, lower_price : RawPrices,
              upper_price : RawPrices, grid_spread : RawSpreads]
  /\ loaded = "pending"

\* load_config / GridConfig(**data): the values are validated
LoadConfig ==
  /\ loaded = "pending"
  /\ loaded' = IF Accepts(raw) THEN "accepted" ELSE "rejected"
  /\ UNCHANGED <<raw, rlvars, gridvars, dbvars, mvars>>

\* the strategy is constructed on the accepted configuration
Construct ==
  /\ loaded = "accepted"
  /\ loaded' = "constructed"
  /\ grid_size' = raw.grid_size
  /\ lower_price' = raw.lower_price * Unit
  /\ upper_price' = raw.upper_price * Unit
  /\ UNCHANGED <<raw, rlvars, market, gpc, idx, in_start, is_running, stopped,
                 active_orders, orders, ladder, cancels, error_log, events,
                 n_events, stop_calls, dbvars, mvars>>

ConfigNext == LoadConfig \/ Construct

(***************************************************************************)
(* DatabaseConnection.get_session / session                                *)
(***************************************************************************)
\* uses of the context manager in one behaviour, each with its own session
MaxSessions == 2
Uses == 1..MaxSessions

\* what a call may raise: nothing, an Exception, or a BaseException that is
\* no Exception (KeyboardInterrupt, asyncio.CancelledError, SystemExit)
Outcomes == {"none", "Exception", "BaseException"}

\* grid_trading_bot: `except Exception:`; scripts: `except:`
Caught(exc) == IF impl = "pkg" THEN exc = "Exception" ELSE TRUE

DbInit ==
  /\ spc = [u \in Uses |-> "idle"]
  /\ calls = [u \in Uses |-> <<>>]
  /\ body_exc = [u \in Uses |-> "none"]
  /\ commit_exc = [u \in Uses |-> "none"]
  /\ propagated = [u \in Uses |-> "none"]

\* session = self.SessionLocal(); try: yield session
GetSession(u) ==
  /\ spc[u] = "idle"
  /\ spc' = [spc EXCEPT ![u] = "body"]
  /\ UNCHANGED <<calls, body_exc, commit_exc, propagated, rlvars, gridvars,
                 cfgvars, mvars>>

\* An exception exc is in flight inside the try: the except clause, if it
\* catches exc, calls session.rollback(); else `finally: session.close()` and
\* exc leaves for the caller.
Handle(u, exc, sofar) ==
  IF Caught(exc)
  THEN /\ calls' = [calls EXCEPT ![u] = Append(sofar, "rollback")]
       /\ spc' = [spc EXCEPT ![u] = "rollback"]
       /\ UNCHANGED propagated
  ELSE /\ calls' = [calls EXCEPT ![u] = Append(sofar, "close")]
       /\ spc' = [spc EXCEPT ![u] = "done"]
       /\ propagated' = [propagated EXCEPT ![u] = exc]

\* The body of the `with` ends: done, session.commit() is called; raising, the
\* exception is thrown into the generator at the yield.
BodyEnds(u, exc) ==
  /\ spc[u] = "body"
  /\ body_exc' = [body_exc EXCEPT ![u] = exc]
  /\ IF exc = "none"
     THEN /\ calls' = [calls EXCEPT ![u] = Append(@, "commit")]
          /\ spc' = [spc EXCEPT ![u] = "commit"]
          /\ UNCHANGED propagated
     ELSE Handle(u, exc, calls[u])
  /\ UNCHANGED <<commit_exc, rlvars, gridvars, cfgvars, mvars>>

\* session.commit() returns, and `finally: session.close()` ends the use; or it
\* raises.
CommitEnds(u, exc) ==
  /\ spc[u] = "commit"
  /\ commit_exc' = [commit_exc EXCEPT ![u] = exc]
  /\ IF exc = "none"
     THEN /\ calls' = [calls EXCEPT ![u] = Append(@, "close")]
          /\ spc' = [spc EXCEPT ![u] = "done"]
          /\ UNCHANGED propagated
     ELSE Handle(u, exc, calls[u])
  /\ UNCHANGED <<body_exc, rlvars, gridvars, cfgvars, mvars>>

\* the exception the except clause is handling
InFlight(u) == IF body_exc[u] # "none" THEN body_exc[u] ELSE commit_exc[u]

\* session.rollback() returns and `raise` re-raises the exception in flight,
\* or rollback() itself raises; `finally: session.close()` either way.
RollbackEnds(u, ok) ==
  /\ spc[u] = "rollback"
  /\ calls' = [calls EXCEPT ![u] = Append(@, "close")]
  /\ spc' = [spc EXCEPT ![u] = "done"]
  /\ propagated' = [propagated EXCEPT ![u] =
                      IF ok THEN InFlight(u) ELSE "rollback failed"]
  /\ UNCHANGED <<body_exc, commit_exc, rlvars, gridvars, cfgvars, mvars>>

DbNext ==
  \/ \E u \in Uses : GetSession(u)
  \/ \E u \in Uses, exc \in Outcomes : BodyEnds(u, exc)
  \/ \E u \in Uses, exc \in Outcomes : CommitEnds(u, exc)
  \/ \E u \in Uses, ok \in BOOLEAN : RollbackEnds(u, ok)

(***************************************************************************)
(* MetricsCollector.  The amounts are Decimals of few digits, on which     *)
(* Decimal's product, sum and difference are exact.                        *)
(***************************************************************************)
\* add_trade calls in one behaviour
MaxTrades == 3

\* the arguments of the calls
TradePrices == {2, 3}
TradeQuantities == {1, 2}
TradeFees == {0, 1}
TradeTimes == {1, 2}
Sides == {"buy", "sell"}

\* A balance update that adds the fee of a sell instead of deducting it.
BalanceFeeAdded(balance, price, quantity, side, fees) ==
  IF side = "buy" THEN balance - (price * quantity + fees)
  ELSE balance + (price * quantity + fees)

\* trade_value = price * quantity; buy: balance -= trade_value + fees;
\* else: balance += trade_value - fees
Balance(balance, price, quantity, side, fees) ==
  IF side = "buy" THEN balance - (price * quantity + fees)
  ELSE balance + (price * quantity - fees)

MetricsInit ==
  /\ trades = <<>>
  /\ current_balance = 0
  /\ peak_balance = 0

AddTrade(price, quantity, side, timestamp, fees) ==
  /\ Len(trades) < MaxTrades
  /\ trades' = Append(trades, [price |-> price, quantity |-> quantity,
                               side |-> side, timestamp |-> timestamp,
                               fees |-> fees])
  /\ current_balance' = Balance(current_balance, price, quantity, side, fees)
  /\ peak_balance' = IF current_balance' > peak_balance THEN current_balance'
                     ELSE peak_balance
  /\ UNCHANGED <<rlvars, gridvars, cfgvars, dbvars>>

MetricsNext ==
  \E price \in TradePrices, quantity \in TradeQuantities, side \in Sides,
     timestamp \in TradeTimes, fees \in TradeFees :
    AddTrade(price, quantity, side, timestamp, fees)

(***************************************************************************)
(* Specifications                                                          *)
(***************************************************************************)
\* the strategy, not yet constructed, beside the limiter
GridAtRest ==
  /\ Constructed(<<2, 0, 0>>, 1..1)
  /\ market = 0

\* no configuration file is being loaded
ConfigAtRest ==
  /\ raw = None
  /\ loaded = "none"

\* the limiter, untouched, beside the strategy
RLIdle ==
  /\ initial_tokens = None
  /\ tokens = Capacity
  /\ time_passed = 0
  /\ lock = 0
  /\ waiters = <<>>
  /\ pc = [c \in Callers |-> "idle"]
  /\ sleep_left = [c \in Callers |-> 0]
  /\ took = [c \in Callers |-> 0]
  /\ n_calls = 0
  /\ n_returned = 0
  /\ n_consumed = 0
  /\ recent = <<>>

RLAtRest == impl = "pkg" /\ RLIdle

\* no session in use, no trade recorded
DbAtRest == DbInit
MetricsAtRest == MetricsInit

\* the limiter under its callers
Init == RLInit /\ GridAtRest /\ ConfigAtRest /\ DbAtRest /\ MetricsAtRest
Next == RLNext
Spec == Init /\ [][Next]_vars

\* the strategy under its callers, the exchange and the market
GridSpecInit ==
  GridInit /\ RLAtRest /\ ConfigAtRest /\ DbAtRest /\ MetricsAtRest
GridSpecNext == GridNext
GridSpec == GridSpecInit /\ [][GridSpecNext]_vars

\* the strategy called by several tasks at once, on one configuration
NumTasks == 2
EngineConfig == <<2, 100, 200>>
EngineInit ==
  /\ Constructed(EngineConfig, 1..NumTasks)
  /\ market \in {m * Unit : m \in MarketPrices}
  /\ RLAtRest
  /\ ConfigAtRest
  /\ DbAtRest
  /\ MetricsAtRest
EngineNext == GridNext
EngineSpec == EngineInit /\ [][EngineNext]_vars

\* a configuration file is loaded and the strategy constructed on it
ConfigSpecInit ==
  /\ ConfigInit
  /\ RLAtRest
  /\ GridAtRest
  /\ DbAtRest
  /\ MetricsAtRest
ConfigSpecNext == ConfigNext
ConfigSpec == ConfigSpecInit /\ [][ConfigSpecNext]_vars

\* sessions of either copy's DatabaseConnection in use
DbSpecInit ==
  /\ DbInit
  /\ impl \in {"pkg", "scripts"}
  /\ RLIdle
  /\ GridAtRest
  /\ ConfigAtRest
  /\ MetricsAtRest
DbSpecNext == DbNext
DbSpec == DbSpecInit /\ [][DbSpecNext]_vars

\* trades recorded by a MetricsCollector
MetricsSpecInit ==
  /\ MetricsInit
  /\ RLAtRest
  /\ GridAtRest
  /\ ConfigAtRest
  /\ DbAtRest
MetricsSpecNext == MetricsNext
MetricsSpec == MetricsSpecInit /\ [][MetricsSpecNext]_vars

\* time advances, a finished sleep resumes, a freed lock is handed on
FairSpec ==
  /\ Spec
  /\ WF_vars(Tick)
  /\ \A c \in Callers : WF_vars(Wake(c)) /\ WF_vars(GetLock(c))

----
(***************************************************************************)
(* RateLimiter: the claims                                                 *)
(***************************************************************************)
InQueue(c) == \E k \in 1..Len(waiters) : waiters[k] = c
Cancelled(c) == pc[c] \in {"cancelled_waiting", "cancelled_sleeping"}

\* C1: in every reachable state, for every interleaving of acquire() calls and
\* every elapsed time, 0 <= tokens <= max_requests.
C1_TokensInRange == 0 <= tokens /\ tokens <= Capacity

\* C2: an acquire() that returned has decremented tokens by exactly one, so the
\* decrements equal the returns, and the decrement found a whole token.
C2_ReturnConsumesOne ==
  /\ n_consumed = n_returned
  /\ \A c \in Callers : pc[c] = "returned" => took[c] = 1

\* C3: at most max_requests acquire() calls return within any time_window
\* (here: among the returns less than TimeWindow ticks old).
C3_AtMostCapacityPerWindow == Len(recent) <= MaxRequests

\* C4: a caller that waits for a refill does not hold the lock while it waits.
C4_WaitWithoutLock == \A c \in Callers : pc[c] = "sleeping" => lock # c

\* C5: under fair scheduling and advancing time, a caller suspended in acquire()
\* and not cancelled eventually returns holding a token it consumed.
C5_EventuallyToken ==
  \A c \in Callers :
    (pc[c] \in {"lock_wait", "sleeping"})
      ~> (Cancelled(c) \/ (pc[c] = "returned" /\ took[c] = 1))

\* C6: an acquire() cancelled while it waits for the lock or sleeps for a refill
\* has decremented no token for its caller and does not keep the lock.
C6_CancelTakesNothing ==
  \A c \in Callers :
    Cancelled(c) => took[c] = 0 /\ lock # c /\ ~InQueue(c)

\* C6 witness: one caller was cancelled in its refill sleep, another in the
\* lock queue, after tokens had been spent.
C6_Witness ==
  /\ \E c \in Callers : pc[c] = "cancelled_sleeping"
  /\ \E c \in Callers : pc[c] = "cancelled_waiting"
  /\ n_consumed > 0

(***************************************************************************)
(* Grid strategy: the claims                                               *)
(***************************************************************************)
Levels == 0..(grid_size - 1)

\* the level whose price an order carries
LevelOf(price) == CHOOSE i \in Levels : LevelPrice(i) = price

\* the open orders of `ords` resting at level i's price
LiveAt(ords, i) ==
  {o \in 1..Len(ords) : ords[o].status = "open" /\ ords[o].price = LevelPrice(i)}

\* the order a fill of `o` is to be answered with: opposite side, one step on
Replacement(o) ==
  [side   |-> IF o.side = "buy" THEN "sell" ELSE "buy",
   price  |-> LevelPrice(IF o.side = "buy" THEN LevelOf(o.price) + 1
                                          ELSE LevelOf(o.price) - 1),
   status |-> "open"]

HasTarget(o) ==
  IF o.side = "buy" THEN LevelOf(o.price) < grid_size - 1
                    ELSE LevelOf(o.price) > 0

TargetOf(o) ==
  IF o.side = "buy" THEN LevelOf(o.price) + 1 ELSE LevelOf(o.price) - 1

\* C7: outside initialization, handling the fill of a buy at level i < N-1
\* whose level i+1 holds no order places exactly one new sell at level i+1's
\* price and leaves level i empty; a filled sell at level i > 0 likewise places
\* one buy at level i-1.
C7_FillPlacesOpposite ==
  [][(events # <<>> /\ events' = Tail(events)
        /\ \A t \in Tasks : gpc[t] # "init")
       => LET o == orders[Head(events)]
          IN  (HasTarget(o) /\ LiveAt(orders, TargetOf(o)) = {})
                => /\ Len(orders') = Len(orders) + 1
                   /\ orders'[Len(orders')] = Replacement(o)
                   /\ LiveAt(orders', LevelOf(o.price)) = {}]_vars

\* C8: in every reachable state each grid level holds at most one live order.
C8_OneLiveOrderPerLevel ==
  \A i \in Levels : Cardinality(LiveAt(orders, i)) <= 1

\* C9: the ladder of an initialization has exactly N levels, the price at index
\* i is lower + i*(upper-lower)/(N-1) (as a Decimal: the one nearest to it), the
\* prices ascend strictly from lower to upper (5, 100, 200 gives 100, 125, 150,
\* 175, 200), and one placement is attempted per level.
C9_LadderPrices ==
  \A t \in Tasks :
    /\ Len(ladder[t]) <= grid_size
    /\ gpc[t] = "init" => Len(ladder[t]) = idx[t]
    /\ \A k \in 1..Len(ladder[t]) :
         ladder[t][k].price
           = DecRound(lower_price * (grid_size - 1)
                        + (k - 1) * (upper_price - lower_price), grid_size - 1)
    /\ \A j, k \in 1..Len(ladder[t]) :
         j < k => ladder[t][j].price < ladder[t][k].price
    /\ (gpc[t] # "init" /\ ladder[t] # <<>>)
         => /\ Len(ladder[t]) = grid_size
            /\ ladder[t][1].price = lower_price
            /\ ladder[t][grid_size].price = upper_price
    /\ (grid_size = 5 /\ lower_price = 100 * Unit /\ upper_price = 200 * Unit)
         => \A k \in 1..Len(ladder[t]) :
              ladder[t][k].price = (100 + 25 * (k - 1)) * Unit

\* C10: a level is placed as a buy when its price is strictly below the current
\* price it was compared with, and as a sell otherwise, a level exactly at the
\* current price included; levels 100..200 by 25 under a price of 140 give
\* buy, buy, sell, sell, sell.
C10_SideByPrice ==
  \A t \in Tasks :
    /\ \A k \in 1..Len(ladder[t]) :
         /\ ladder[t][k].price < ladder[t][k].current_price
              => ladder[t][k].side = "buy"
         /\ ladder[t][k].price >= ladder[t][k].current_price
              => ladder[t][k].side = "sell"
    /\ ( /\ grid_size = 5 /\ lower_price = 100 * Unit /\ upper_price = 200 * Unit
         /\ Len(ladder[t]) = 5
         /\ \A k \in 1..5 : ladder[t][k].current_price = 140 * Unit )
         => [k \in 1..5 |-> ladder[t][k].side]
              = <<"buy", "buy", "sell", "sell", "sell">>

\* C10 witness: a finished ladder with a level exactly at the current price,
\* placed as a sell, above levels placed as buys.
C10_Witness ==
  \E t \in Tasks :
    /\ gpc[t] # "init"
    /\ Len(ladder[t]) = grid_size
    /\ \E k \in 1..Len(ladder[t]) :
         /\ ladder[t][k].price = ladder[t][k].current_price
         /\ ladder[t][k].side = "sell"
         /\ \E j \in 1..Len(ladder[t]) : j < k /\ ladder[t][j].side = "buy"
    /\ \E o \in 1..Len(orders) :
         orders[o].side = "sell" /\ orders[o].price = market

(***************************************************************************)
(* Grid strategy: stopping, failures, configuration                        *)
(***************************************************************************)
\* what the strategy holds and has asked of the exchange
EngineState == <<is_running, active_orders, orders, cancels, gpc, idx, ladder>>

\* the cancel_order calls made for order o
CancelAttempts(cs, o) == Cardinality({k \in 1..Len(cs) : cs[k] = o})

\* C11: stop() is idempotent: a stop() called after an earlier stop(), the
\* engine not started again in between, leaves the engine state as the earlier
\* call left it, and no order is ever the subject of more than one cancel
\* attempt.
C11_StopIdempotent ==
  [][ /\ \A o \in 1..Len(orders') : CancelAttempts(cancels', o) <= 1
      /\ (stop_calls' = stop_calls + 1 /\ stop_calls > 0 /\ ~is_running)
           => UNCHANGED EngineState ]_vars

\* C11 witness: stop() was called twice on a started engine whose orders are
\* still open.
C11_Witness ==
  /\ stop_calls >= 2
  /\ ~is_running
  /\ \E t \in Tasks : in_start[t] /\ stopped[t]
  /\ \E o \in 1..Len(orders) : orders[o].status = "open"

\* C12: a stop() on a running engine asks the exchange to cancel every order
\* that is open when it is called.
C12_StopCancelsLive ==
  [][(stop_calls' = stop_calls + 1 /\ is_running)
       => \A o \in 1..Len(orders) :
            orders[o].status = "open" => CancelAttempts(cancels', o) >= 1]_vars

\* the logger.error line of a failed placement
ErrorLine(l) == [side |-> l.side, price |-> l.price]

\* C13: a placement that fails during an initialization does not end the
\* initialization: one attempt is made per turn of the loop, no level is
\* attempted twice, an initialization that has ended has attempted all N
\* levels, and every failed level is in the error log with its side and price.
C13_FailureContained ==
  \A t \in Tasks :
    /\ gpc[t] = "init" => Len(ladder[t]) = idx[t]
    /\ \A j, k \in 1..Len(ladder[t]) :
         j # k => ladder[t][j].price # ladder[t][k].price
    /\ (gpc[t] # "init" /\ ladder[t] # <<>>) => Len(ladder[t]) = grid_size
    /\ \A k \in 1..Len(ladder[t]) :
         ~ladder[t][k].placed
           => \E j \in 1..Len(error_log) : error_log[j] = ErrorLine(ladder[t][k])

\* C13 witness: an initialization has ended in which the placement of one
\* level failed and that of a later level was accepted.
C13_Witness ==
  \E t \in Tasks :
    /\ gpc[t] # "init"
    /\ Len(ladder[t]) = grid_size
    /\ \E j, k \in 1..Len(ladder[t]) :
         /\ j < k
         /\ ~ladder[t][j].placed
         /\ ladder[t][k].placed
         /\ \E o \in 1..Len(orders) : orders[o].price = ladder[t][k].price
    /\ error_log # <<>>

\* C14: a configuration that validation accepted, and one the strategy was
\* constructed on, has grid_size >= 2 and lower_price < upper_price.
C14_AcceptedIsValid ==
  loaded \in {"accepted", "constructed"}
    => raw.grid_size >= 2 /\ raw.lower_price < raw.upper_price

(***************************************************************************)
(* RateLimiter: the refill                                                 *)
(***************************************************************************)
\* C15: an acquire() that takes a token first refills the bucket for the time
\* since the last refill and moves the refill timestamp to now, also when it
\* finds tokens available.
C15_RefillEveryAttempt ==
  [][n_consumed' = n_consumed + 1
       => /\ time_passed' = 0
          /\ tokens' = Refill(tokens, time_passed) - OneToken]_vars

(***************************************************************************)
(* Grid strategy: the ladder's sides, the order book, the life cycle       *)
(***************************************************************************)
\* C16: the levels of one initialization are classified against one reference
\* price: when the initialization has ended, every level placed as a buy is
\* priced strictly below every level placed as a sell, however the market
\* moved meanwhile.
C16_BuysBelowSells ==
  \A t \in Tasks :
    gpc[t] # "init"
      => \A j, k \in 1..Len(ladder[t]) :
           (ladder[t][j].side = "buy" /\ ladder[t][k].side = "sell")
             => ladder[t][j].price < ladder[t][k].price

\* C17: the id of every order the exchange accepted and that is open is among
\* the strategy's active orders, from the step that placed it on.
C17_AcceptedOrdersRecorded ==
  \A o \in 1..Len(orders) : orders[o].status = "open" => o \in active_orders

\* C18: once stop() was called, the loop of a start() that was in progress
\* begins no further check-and-update, whatever is called afterwards.
C18_NoCheckAfterStop ==
  [][\A t \in Tasks :
       (stopped[t] /\ gpc[t] # "check") => gpc'[t] # "check"]_vars

\* C19: at most one start() is in progress, initializing or looping, in every
\* reachable state.
C19_OneStartInProgress == Cardinality(InStart) <= 1

\* C20: while the initialization of a start() is in progress the engine does
\* not report that it is running.
C20_NotRunningWhileInitializing ==
  \A t \in Tasks : (in_start[t] /\ gpc[t] = "init") => ~is_running

(***************************************************************************)
(* RateLimiter: the context manager, the constructor                       *)
(***************************************************************************)
\* C21: leaving `async with` on the limiter, the body done or raising, leaves
\* the token count and the time since the last refill as they were, and the
\* token count rises only by the refill of an acquire(), which moves the
\* refill timestamp to now.
C21_NoTokenReturned ==
  [][ /\ \A c \in Callers :
           (pc[c] = "returned" /\ pc'[c] \in {"exited", "raised"})
             => tokens' = tokens /\ time_passed' = time_passed
      /\ tokens' > tokens
           => /\ time_passed' = 0
              /\ tokens' \in {Refill(tokens, time_passed),
                              Refill(tokens, time_passed) - OneToken} ]_vars

\* C21 witness: one caller left the context after its body raised, another
\* after its body was done, and the bucket is not full.
C21_Witness ==
  /\ \E c \in Callers : pc[c] = "raised"
  /\ \E c \in Callers : pc[c] = "exited"
  /\ n_consumed >= 2
  /\ tokens < Capacity

\* C22: before any acquire(), a limiter constructed with initial_tokens = k
\* holds exactly k tokens, k = 0 included, and it holds max_requests tokens
\* only when initial_tokens was omitted or was max_requests.
C22_StartsWithInitialTokens ==
  n_calls = 0
    => /\ initial_tokens # None => tokens = initial_tokens * OneToken
       /\ tokens = Capacity => initial_tokens \in {None, MaxRequests}

(***************************************************************************)
(* DatabaseConnection: the claim                                           *)
(***************************************************************************)
\* the calls of method m among the calls cs
Count(cs, m) == Cardinality({k \in 1..Len(cs) : cs[k] = m})

Failed(u) == body_exc[u] # "none" \/ commit_exc[u] # "none"

\* C23: in every use of the session context manager the session is closed at
\* most once, and exactly once, as the last call, when the use has ended;
\* commit was called if and only if the body raised nothing; rollback was
\* called if and only if the body or the commit raised, and then an exception
\* reaches the caller: the one raised, unless rollback itself failed.
C23_SessionScope ==
  \A u \in Uses :
    /\ Count(calls[u], "close") <= 1
    /\ spc[u] = "done"
         => /\ Count(calls[u], "close") = 1
            /\ calls[u][Len(calls[u])] = "close"
            /\ Count(calls[u], "commit") = (IF body_exc[u] = "none" THEN 1 ELSE 0)
            /\ Count(calls[u], "rollback") = (IF Failed(u) THEN 1 ELSE 0)
            /\ Failed(u) => propagated[u] \in {InFlight(u), "rollback failed"}
            /\ ~Failed(u) => propagated[u] = "none"

(***************************************************************************)
(* MetricsCollector: the claim                                             *)
(***************************************************************************)
\* the sells' price*quantity - fees less the buys' price*quantity + fees
RECURSIVE Net(_)
Net(ts) ==
  IF ts = <<>> THEN 0
  ELSE LET t == ts[Len(ts)]
       IN  Net(SubSeq(ts, 1, Len(ts) - 1))
             + (IF t.side = "sell" THEN t.price * t.quantity - t.fees
                ELSE 0 - (t.price * t.quantity + t.fees))

\* C24: every add_trade call appends one record and leaves the earlier ones,
\* never lowers peak_balance, and leaves peak_balance >= current_balance,
\* peak_balance >= 0 and current_balance equal to the sells' proceeds net of
\* fees less the buys' cost with fees.
C24_BalanceAndPeak ==
  [][ /\ Len(trades') = Len(trades) + 1
      /\ SubSeq(trades', 1, Len(trades)) = trades
      /\ peak_balance' >= peak_balance
      /\ peak_balance' >= current_balance'
      /\ peak_balance' >= 0
      /\ current_balance' = Net(trades') ]_mvars

\* C24 witness: buys and sells were recorded, the balance rose above zero and
\* has fallen below its peak since.
C24_Witness ==
  /\ Len(trades) = MaxTrades
  /\ \E k \in 1..Len(trades) : trades[k].side = "buy" /\ trades[k].fees > 0
  /\ \E k \in 1..Len(trades) : trades[k].side = "sell" /\ trades[k].fees > 0
  /\ peak_balance > 0
  /\ current_balance < peak_balance

====
